---------------------------- MODULE Spec2Model ----------------------------
(***************************************************************************)
(* A model of http-content-range: ContentRange::parse_bytes (src/lib.rs)   *)
(* and the cursor primitives of IterExt (src/utils.rs).                    *)
(*                                                                         *)
(* A header is a sequence of bytes (0..255).  One behaviour is one call of *)
(* parse_bytes: Init chooses the header, every action is one statement of  *)
(* parse_opt or one loop iteration of a cursor primitive.                  *)
(***************************************************************************)
EXTENDS Integers, Sequences, FiniteSets, TLC

(***************************************************************************)
(* Bytes of the source.                                                    *)
(***************************************************************************)
\* static PREFIX: &[u8] = b"bytes"
PREFIX == <<98, 121, 116, 101, 115>>

PREFIX_LEN == 5

\* b'\t' and b' ' of is_whitespace
TAB == 9

SP == 32

\* b'0' and b'9' of is_digit
ZERO == 48

NINE == 57

\* b'*', b'-', b'/' of parse_opt
STAR == 42

DASH == 45

SLASH == 47

\* Option<T>: None is the empty sequence, Some(v) the one-element sequence.
None == <<>>

Some(v) == <<v>>

IsSome(o) == o # <<>>

Unwrap(o) == o[1]

\* utils::fail_if: None if test is true
fail_if(test) == IF test THEN None ELSE Some(TRUE)

\* is_whitespace that forgets the tab
is_whitespace_SpaceOnly(c) == c = SP

\* is_whitespace written as u8::is_ascii_whitespace plus vertical tab
is_whitespace_Ascii(c) == c \in {TAB, 10, 11, 12, 13, SP}

\* utils::is_whitespace
is_whitespace(c) == c = TAB \/ c = SP

\* is_digit with `>` for `>=`
is_digit_NoZero(c) == c > ZERO /\ c <= NINE

\* is_digit without its lower bound
is_digit_UpperOnly(c) == c <= NINE

\* utils::is_digit
is_digit(c) == c >= ZERO /\ c <= NINE

\* utils::into_digit, called on digits only; on u8 the subtraction
\* underflows below b'0' (a panic where overflow checks are on), which
\* is_digit rules out before every call
into_digit(c) == c - ZERO

IntoDigitUnderflows(c) == c < ZERO

(***************************************************************************)
(* u64.  TLC's integers are 32 bits wide, so a u64 is kept as four 16-bit  *)
(* limbs, least significant first; checked_mul and checked_add carry       *)
(* through the limbs and report the carry out of bit 63 as None.           *)
(***************************************************************************)
U64_BITS == 64

LimbBits == U64_BITS \div 4

LimbBase == 2 ^ LimbBits

NLimbs == U64_BITS \div LimbBits

U64Zero == <<0, 0, 0, 0>>

\* a small integer n (0 <= n < LimbBase) as u64: `as u64`
AsU64(n) == <<n, 0, 0, 0>>

\* u64::MAX
U64Max == <<LimbBase - 1, LimbBase - 1, LimbBase - 1, LimbBase - 1>>

RECURSIVE MulAddCarry(_, _, _, _)
\* the carry into limb i of x * m + c  (m, c < LimbBase)
MulAddCarry(x, m, c, i) ==
    IF i = 1 THEN c
    ELSE (x[i - 1] * m + MulAddCarry(x, m, c, i - 1)) \div LimbBase

MulAddLimb(x, m, c, i) == (x[i] * m + MulAddCarry(x, m, c, i)) % LimbBase

\* x * m + c modulo 2^64
MulAdd(x, m, c) ==
    <<MulAddLimb(x, m, c, 1), MulAddLimb(x, m, c, 2), MulAddLimb(x, m, c, 3),
      MulAddLimb(x, m, c, 4)>>

\* u64::checked_mul(self, rhs) for a small rhs
checked_mul(x, m) ==
    IF MulAddCarry(x, m, 0, NLimbs + 1) # 0 THEN None ELSE Some(MulAdd(x, m, 0))

\* wrapping_add in place of checked_add
checked_add_Wrapping(x, d) == Some(MulAdd(x, 1, d))

\* u64::checked_add(self, rhs) for a small rhs
checked_add(x, d) ==
    IF MulAddCarry(x, 1, d, NLimbs + 1) # 0 THEN None ELSE Some(MulAdd(x, 1, d))

RECURSIVE U64LtFrom(_, _, _)
U64LtFrom(x, y, i) ==
    IF i = 0 THEN FALSE
    ELSE IF x[i] # y[i] THEN x[i] < y[i]
    ELSE U64LtFrom(x, y, i - 1)

\* `>` in place of `>=`
U64Ge_Strict(x, y) == U64LtFrom(y, x, NLimbs)

\* the u64 comparisons of parse_opt: first_byte > last_byte,
\* last_byte >= complete_length
U64Gt(x, y) == U64LtFrom(y, x, NLimbs)

U64Ge(x, y) == ~U64LtFrom(x, y, NLimbs)


(***************************************************************************)
(* enum ContentRange                                                       *)
(***************************************************************************)
Bytes(f, l, c) ==
    [tag |-> "Bytes", first_byte |-> f, last_byte |-> l, complete_length |-> c]

UnboundBytes(f, l) == [tag |-> "UnboundBytes", first_byte |-> f, last_byte |-> l]

Unsatisfied(c) == [tag |-> "Unsatisfied", complete_length |-> c]

Unknown == [tag |-> "Unknown"]

\* parse_bytes has not returned yet
NotReturned == [tag |-> "NotReturned"]

(***************************************************************************)
(* State of one call of parse_bytes.                                       *)
(***************************************************************************)
VARIABLES
    header,      \* the argument: a sequence of bytes
    given,       \* how the header was put together (read by the properties only)
    pc,          \* the statement of parse_opt to execute next
    stage,       \* the position inside the cursor primitive that pc calls
    idx,         \* slice iterator: bytes of header it has yielded or skipped
    peeked,      \* Peekable::peeked : Option<Option<u8>>
    acc,         \* `res` of parse_u64
    first_byte,  \* locals of parse_opt
    last_byte,
    res,         \* `res` of parse_opt
    out,         \* the value parse_bytes returns
    panic,       \* "none", or the panic that ended the call
    visits,      \* visits[i]: peek()/next()/starts_with results that were byte i
    reads        \* reads[i]: times byte i was read out of the slice

vars == <<header, given, pc, stage, idx, peeked, acc, first_byte, last_byte,
          res, out, panic, visits, reads>>

\* statements of parse_opt that call parse_u64 / parse_separator
U64Pcs == {"unsat_len", "first", "last", "complete"}

SepPcs == {"unsat_sep", "dash", "slash"}

\* every parse_separator call given b'-'
Separator_AlwaysDash(p) == DASH

\* the separator each parse_separator call is given
Separator(p) == IF p = "dash" THEN DASH ELSE SLASH

StageAt(p) ==
    IF p \in U64Pcs THEN "head" ELSE IF p \in SepPcs THEN "skip1" ELSE "call"

Goto(p) == pc' = p /\ stage' = StageAt(p)

\* `?` on None, and unwrap_or(ContentRange::Unknown) in parse_bytes
Fail == pc' = "done" /\ stage' = "call" /\ out' = Unknown

Panic(why) ==
    /\ pc' = "done" /\ stage' = "call" /\ panic' = why
    /\ UNCHANGED <<idx, peeked, acc, first_byte, last_byte, res, out, visits, reads>>

(***************************************************************************)
(* Peekable<Iter<u8>>: peek() fills `peeked` from the slice iterator when  *)
(* it is empty, next() takes `peeked` or reads the slice iterator.         *)
(***************************************************************************)
\* Iter::next on the slice: None at the end
SliceItem == IF idx < Len(header) THEN Some(header[idx + 1]) ELSE None

Fresh == ~IsSome(peeked)

\* what peek() and next() return in this state
CurItem == IF Fresh THEN SliceItem ELSE Unwrap(peeked)

\* the index in header of the byte CurItem holds
CurIndex == IF Fresh THEN idx + 1 ELSE idx

IdxAfter == IF Fresh /\ IsSome(SliceItem) THEN idx + 1 ELSE idx

Touch(f, i, n) == [f EXCEPT ![i] = @ + n]

\* n calls (peek, or peek then next, or next) that all return CurItem
Observe(n) ==
    /\ idx' = IdxAfter
    /\ visits' = IF IsSome(CurItem) THEN Touch(visits, CurIndex, n) ELSE visits
    /\ reads' = IF Fresh /\ IsSome(SliceItem) THEN Touch(reads, idx + 1, 1) ELSE reads

\* self.peek()
PeekEffect == peeked' = Some(CurItem) /\ Observe(1)

\* self.next()
NextEffect == peeked' = None /\ Observe(1)

\* the loop iteration without its self.next()
PeekNextEffect_NoNext == peeked' = Some(CurItem) /\ Observe(1)

\* self.peek() followed by self.next()
PeekNextEffect == peeked' = None /\ Observe(2)

\* the read position as the caller sees it: a peeked byte is not consumed
Cursor == IF IsSome(peeked) /\ IsSome(Unwrap(peeked)) THEN idx - 1 ELSE idx

\* starts_with that compares the lengths only
StartsWith_LengthOnly(h, p) == Len(h) >= Len(p)

(***************************************************************************)
(* slice::starts_with(PREFIX)                                              *)
(***************************************************************************)
StartsWith(h, p) == Len(h) >= Len(p) /\ SubSeq(h, 1, Len(p)) = p

\* starts_with compares the first Len(PREFIX) bytes when there are that many
Compared(f) ==
    IF Len(header) >= Len(PREFIX)
    THEN [f EXCEPT ![1] = @ + 1, ![2] = @ + 1, ![3] = @ + 1, ![4] = @ + 1,
                   ![5] = @ + 1]
    ELSE f

(***************************************************************************)
(* parse_opt, statement by statement.                                      *)
(***************************************************************************)
\* if !header.starts_with(PREFIX) { return None; }
\* let mut iter = header[PREFIX_LEN..].iter().peekable();
CheckPrefix ==
    /\ pc = "prefix"
    /\ IF ~StartsWith(header, PREFIX)
       THEN /\ Fail
            /\ visits' = Compared(visits)
            /\ reads' = Compared(reads)
            /\ UNCHANGED <<idx, peeked, acc, first_byte, last_byte, res, panic>>
       ELSE IF PREFIX_LEN > Len(header)
       THEN /\ Panic("slice index out of range")
       ELSE /\ Goto("space")
            /\ idx' = PREFIX_LEN
            /\ visits' = Compared(visits)
            /\ reads' = Compared(reads)
            /\ UNCHANGED <<peeked, acc, first_byte, last_byte, res, out, panic>>
    /\ UNCHANGED <<header, given>>

\* fail_if(!is_whitespace(*iter.next()?))?;
RequireSpace ==
    /\ pc = "space"
    /\ NextEffect
    /\ IF IsSome(CurItem) /\ IsSome(fail_if(~is_whitespace(Unwrap(CurItem))))
       THEN Goto("branch") /\ UNCHANGED out
       ELSE Fail
    /\ UNCHANGED <<header, given, acc, first_byte, last_byte, res, panic>>

\* where skip_spaces is running: called by parse_opt (lines 93 and 131) or
\* by parse_separator (before and after the separator)
InSkipSpaces ==
    \/ pc \in {"branch", "tail"}
    \/ pc \in SepPcs /\ stage \in {"skip1", "skip2"}

\* the final check dropped: whatever follows is ignored
TailResult_Lenient(r) == res

\* match iter.skip_spaces() { None => Some(res), Some(_) => None }
TailResult(r) == IF IsSome(r) THEN Unknown ELSE res

\* what the caller does with the Option skip_spaces returns
SkipSpacesReturns(r) ==
    CASE pc = "branch" ->
           IF ~IsSome(r) THEN Fail
           ELSE /\ Goto(IF Unwrap(r) = STAR THEN "unsat_star" ELSE "first")
                /\ UNCHANGED out
      [] pc = "tail" ->
           /\ pc' = "done" /\ stage' = "call"
           /\ out' = TailResult(r)
      [] pc \in SepPcs /\ stage = "skip1" ->
           IF ~IsSome(r) \/ Unwrap(r) # Separator(pc) THEN Fail
           ELSE pc' = pc /\ stage' = "consume" /\ UNCHANGED out
      [] pc \in SepPcs /\ stage = "skip2" ->
           IF ~IsSome(r) THEN Fail
           ELSE /\ Goto(CASE pc = "unsat_sep" -> "unsat_len"
                          [] pc = "dash" -> "last"
                          [] pc = "slash" ->
                               IF Unwrap(r) = STAR THEN "unbound_star"
                               ELSE "complete")
                /\ UNCHANGED out

\* one iteration of the loop of skip_spaces
SkipSpaces ==
    /\ InSkipSpaces
    /\ IF IsSome(CurItem) /\ is_whitespace(Unwrap(CurItem))
       THEN /\ PeekNextEffect
            /\ UNCHANGED <<pc, stage, out>>
       ELSE /\ PeekEffect
            /\ SkipSpacesReturns(CurItem)
    /\ UNCHANGED <<header, given, acc, first_byte, last_byte, res, panic>>

\* self.next()?; // consume separator      (parse_separator)
ConsumeSeparator ==
    /\ pc \in SepPcs /\ stage = "consume"
    /\ NextEffect
    /\ IF IsSome(CurItem) THEN pc' = pc /\ stage' = "skip2" /\ UNCHANGED out
       ELSE Fail
    /\ UNCHANGED <<header, given, acc, first_byte, last_byte, res, panic>>

\* iter.next()?; // consume '*'            (lines 95 and 110)
ConsumeStar ==
    /\ pc \in {"unsat_star", "unbound_star"}
    /\ NextEffect
    /\ IF ~IsSome(CurItem)
       THEN Fail /\ UNCHANGED res
       ELSE IF pc = "unsat_star"
       THEN Goto("unsat_sep") /\ UNCHANGED <<res, out>>
       ELSE /\ Goto("tail")
            /\ res' = UnboundBytes(first_byte, last_byte)
            /\ UNCHANGED out
    /\ UNCHANGED <<header, given, acc, first_byte, last_byte, panic>>

\* what the caller does with the Option parse_u64 returns
ParseU64Returns(r) ==
    IF ~IsSome(r)
    THEN Fail /\ UNCHANGED <<first_byte, last_byte, res>>
    ELSE CASE pc = "unsat_len" ->
                /\ Goto("tail")
                /\ res' = Unsatisfied(Unwrap(r))
                /\ UNCHANGED <<first_byte, last_byte, out>>
           [] pc = "first" ->
                /\ Goto("dash")
                /\ first_byte' = Unwrap(r)
                /\ UNCHANGED <<last_byte, res, out>>
           [] pc = "last" ->
                /\ Goto("order")
                /\ last_byte' = Unwrap(r)
                /\ UNCHANGED <<first_byte, res, out>>
           [] pc = "complete" ->
                /\ Goto("bound")
                /\ UNCHANGED <<first_byte, last_byte, res, out>>

\* parse_u64, the first byte: match self.next() { ... }
ParseU64Head ==
    /\ pc \in U64Pcs /\ stage = "head"
    /\ IF IsSome(CurItem) /\ is_digit(Unwrap(CurItem))
          /\ IntoDigitUnderflows(Unwrap(CurItem))
       THEN Panic("attempt to subtract with overflow")
       ELSE /\ NextEffect
            /\ panic' = panic
            /\ IF IsSome(CurItem) /\ is_digit(Unwrap(CurItem))
               THEN /\ acc' = AsU64(into_digit(Unwrap(CurItem)))
                    /\ pc' = pc /\ stage' = "loop"
                    /\ UNCHANGED <<first_byte, last_byte, res, out>>
               ELSE /\ acc' = acc
                    /\ ParseU64Returns(None)
    /\ UNCHANGED <<header, given>>

\* res.checked_mul(10)?.checked_add(into_digit(next))?
Accumulate(r, c) ==
    IF IsSome(checked_mul(r, 10))
    THEN checked_add(Unwrap(checked_mul(r, 10)), into_digit(c))
    ELSE None

\* parse_u64, one iteration of its loop
ParseU64Loop ==
    /\ pc \in U64Pcs /\ stage = "loop"
    /\ IF IsSome(CurItem) /\ is_digit(Unwrap(CurItem))
       THEN IF IntoDigitUnderflows(Unwrap(CurItem))
            THEN Panic("attempt to subtract with overflow")
            ELSE /\ panic' = panic
                 /\ IF IsSome(Accumulate(acc, Unwrap(CurItem)))
                    THEN /\ PeekNextEffect
                         /\ acc' = Unwrap(Accumulate(acc, Unwrap(CurItem)))
                         /\ UNCHANGED <<pc, stage, first_byte, last_byte, res, out>>
                    ELSE /\ PeekEffect
                         /\ acc' = acc
                         /\ ParseU64Returns(None)
       ELSE /\ PeekEffect
            /\ panic' = panic
            /\ acc' = acc
            /\ ParseU64Returns(Some(acc))
    /\ UNCHANGED <<header, given>>

\* fail_if(first_byte > last_byte)?;
CheckOrder ==
    /\ pc = "order"
    /\ IF IsSome(fail_if(U64Gt(first_byte, last_byte)))
       THEN Goto("slash") /\ UNCHANGED out
       ELSE Fail
    /\ UNCHANGED <<header, given, idx, peeked, acc, first_byte, last_byte, res,
                   panic, visits, reads>>

\* fail_if(last_byte >= complete_length)?;  ContentRange::Bytes { .. }
CheckBound ==
    /\ pc = "bound"
    /\ IF IsSome(fail_if(U64Ge(last_byte, acc)))
       THEN /\ Goto("tail")
            /\ res' = Bytes(first_byte, last_byte, acc)
            /\ UNCHANGED out
       ELSE Fail /\ UNCHANGED res
    /\ UNCHANGED <<header, given, idx, peeked, acc, first_byte, last_byte,
                   panic, visits, reads>>

Next ==
    \/ CheckPrefix
    \/ RequireSpace
    \/ SkipSpaces
    \/ ConsumeSeparator
    \/ ConsumeStar
    \/ ParseU64Head
    \/ ParseU64Loop
    \/ CheckOrder
    \/ CheckBound


(***************************************************************************)
(* The headers parse_bytes is called with.  The table of tests::test_parse *)
(* is generalised into families: each valid line with any numbers and any  *)
(* extra whitespace, every short byte string after the prefix, and every   *)
(* one-byte edit and every truncation of the lines of the table.           *)
(***************************************************************************)
MaxBody == 4

MaxWs == 1

\* the places where a header may carry extra whitespace
Slots == 1..6

RECURSIVE Rem10(_, _)
\* (the number made of limbs i..NLimbs of x) mod 10
Rem10(x, i) ==
    IF i > NLimbs THEN 0 ELSE (Rem10(x, i + 1) * LimbBase + x[i]) % 10

Div10Limb(x, i) == (Rem10(x, i + 1) * LimbBase + x[i]) \div 10

Div10(x) == <<Div10Limb(x, 1), Div10Limb(x, 2), Div10Limb(x, 3), Div10Limb(x, 4)>>

RECURSIVE Digits(_)
Digits(x) ==
    IF x = U64Zero THEN <<>> ELSE Append(Digits(Div10(x)), ZERO + Rem10(x, 1))

\* format!("{}", x) of a u64: its decimal rendering
Render(x) == IF x = U64Zero THEN <<ZERO>> ELSE Digits(x)

\* the u64 with limbs given most significant first
Limbs(a, b, c, d) == <<d, c, b, a>>

SmallVals == {AsU64(0), AsU64(1), AsU64(20)}

BigVals ==
    {AsU64(9), Limbs(0, 0, 1, 0), Limbs(0, 1, 0, 0), Limbs(32768, 0, 0, 0),
     Limbs(65535, 65535, 65535, 65534), U64Max}

RECURSIVE SeqsUpTo(_, _)
\* every sequence over S of length 0..n
SeqsUpTo(S, n) ==
    IF n = 0 THEN {<<>>}
    ELSE LET shorter == SeqsUpTo(S, n - 1)
         IN  shorter \cup {Append(s, x) : s \in shorter, x \in S}

\* the runs of spaces and tabs a header is padded with
WsRuns == SeqsUpTo({SP, TAB}, MaxWs) \ {<<>>}

NoPad == [i \in Slots |-> <<>>]

\* padding: nowhere, in one slot, or in every slot
Pads ==
    {NoPad}
      \cup {[i \in Slots |-> IF i = k THEN w ELSE <<>>] : k \in Slots, w \in WsRuns}
      \cup {[i \in Slots |-> w] : w \in WsRuns}

\* `bytes a-b/c`, `bytes a-b/*` and `bytes */c`, with w[1..6] put after the
\* space that follows `bytes`, around `-`, around `/` and at the end
Template(shape, a, b, c, w) ==
    PREFIX \o <<SP>> \o w[1]
      \o (IF shape = "Unsatisfied" THEN <<STAR>> \o w[4]
          ELSE Render(a) \o w[2] \o <<DASH>> \o w[3] \o Render(b) \o w[4])
      \o <<SLASH>> \o w[5]
      \o (IF shape = "UnboundBytes" THEN <<STAR>> ELSE Render(c))
      \o w[6]

Shapes == {"Bytes", "UnboundBytes", "Unsatisfied"}

Case(fam, shape, a, b, c, pad, h) ==
    [fam |-> fam, shape |-> shape, a |-> a, b |-> b, c |-> c, pad |-> pad,
     header |-> h]

Raw(fam, h) == Case(fam, "none", U64Zero, U64Zero, U64Zero, NoPad, h)

TemplateCases ==
    {Case("template", sh, a, b, c, w, Template(sh, a, b, c, w)) :
        sh \in Shapes, a \in SmallVals, b \in SmallVals, c \in SmallVals, w \in Pads}
      \cup
    {Case("template", sh, a, b, c, NoPad, Template(sh, a, b, c, NoPad)) :
        sh \in Shapes, a \in BigVals, b \in BigVals, c \in BigVals}

\* the bytes short bodies are made of
Alphabet == {SP, TAB, 10, STAR, DASH, SLASH, ZERO}

ShortCases == {Raw("short", PREFIX \o b) : b \in SeqsUpTo(Alphabet, MaxBody)}

\* lines of the table of tests::test_parse, valid ones first
TableLines ==
    { Template("Bytes", AsU64(1), AsU64(3), AsU64(20), NoPad),
      Template("UnboundBytes", AsU64(1), AsU64(3), AsU64(20), NoPad),
      Template("Unsatisfied", AsU64(1), AsU64(3), AsU64(1), NoPad),
      Template("Bytes", AsU64(0), AsU64(9), AsU64(20),
               [i \in Slots |-> <<SP, TAB>>]),
      <<102, 111, 111>> \o <<SP, 49, DASH, 50, SLASH, 51>>,
      <<66>> \o Tail(PREFIX) \o <<SP, 49, DASH, 50, SLASH, 51>> }

\* bytes put into, or in place of a byte of, a line of the table
EditBytes ==
    {0, TAB, 10, 11, 12, 13, SP, STAR, 43, DASH, 46, SLASH, ZERO, 49, NINE, 58,
     61, 97, 120, 128, 160, 255}

Insert(h, p, x) == SubSeq(h, 1, p) \o <<x>> \o SubSeq(h, p + 1, Len(h))

Replace(h, p, x) == [h EXCEPT ![p] = x]

EditsOf(h) ==
    {Raw("insert", Insert(h, p, x)) : p \in 0..Len(h), x \in EditBytes}
      \cup {Raw("replace", Replace(h, p, x)) : p \in 1..Len(h), x \in EditBytes}
      \cup {Raw("truncate", SubSeq(h, 1, p)) : p \in 0..Len(h)}

EditCases == UNION {EditsOf(h) : h \in TableLines}

\* digit strings around u64::MAX = 18446744073709551615
MaxDigits == <<1, 8, 4, 4, 6, 7, 4, 4, 0, 7, 3, 7, 0, 9, 5, 5, 1, 6, 1, 5>>

RECURSIVE AsBytes(_)
AsBytes(d) == IF d = <<>> THEN <<>> ELSE <<ZERO + d[1]>> \o AsBytes(Tail(d))

Literals ==
    { AsBytes(MaxDigits),
      AsBytes([MaxDigits EXCEPT ![20] = 6]),
      AsBytes([MaxDigits EXCEPT ![20] = 4]),
      AsBytes([MaxDigits EXCEPT ![19] = 2, ![20] = 0]),
      AsBytes(<<0, 0>> \o MaxDigits),
      AsBytes(<<0>> \o [MaxDigits EXCEPT ![1] = 2]),
      AsBytes(MaxDigits \o <<0>>),
      AsBytes([i \in 1..20 |-> 9]),
      AsBytes([i \in 1..43 |-> 1]),
      AsBytes([i \in 1..25 |-> 0]),
      AsBytes(<<0, 0, 7>>) }

\* a line with a literal as first byte, last byte or complete length
LiteralLine(shape, pos, lit) ==
    PREFIX \o <<SP>>
      \o (IF shape = "Unsatisfied" THEN <<STAR>>
          ELSE (IF pos = 1 THEN lit ELSE <<ZERO>>) \o <<DASH>>
                 \o (IF pos = 2 THEN lit ELSE AsBytes(MaxDigits)))
      \o <<SLASH>>
      \o (IF shape = "UnboundBytes" THEN <<STAR>>
          ELSE IF pos = 3 THEN lit ELSE AsBytes(MaxDigits))

LiteralCases ==
    {Raw("literal", LiteralLine(sh, pos, lit)) :
        sh \in Shapes, pos \in 1..3, lit \in Literals}

\* a valid line followed by more: optional whitespace, one byte that is not
\* whitespace, optional whitespace
TrailingCases ==
    {Raw("trailing", h \o w \o <<x>> \o v) :
        h \in {l \in TableLines : l[1] = PREFIX[1]},
        w \in WsRuns \cup {<<>>}, v \in {<<>>, <<SP>>},
        x \in EditBytes \ {SP, TAB}}

Cases ==
    TemplateCases \cup ShortCases \cup EditCases \cup LiteralCases
      \cup TrailingCases

RECURSIVE Zeros(_)
\* n counters, all zero
Zeros(n) == IF n = 0 THEN <<>> ELSE Append(Zeros(n - 1), 0)

Init ==
    /\ given \in Cases
    /\ header = given.header
    /\ pc = "prefix"
    /\ stage = "call"
    /\ idx = 0
    /\ peeked = None
    /\ acc = U64Zero
    /\ first_byte = U64Zero
    /\ last_byte = U64Zero
    /\ res = NotReturned
    /\ out = NotReturned
    /\ panic = "none"
    /\ visits = Zeros(Len(header))
    /\ reads = Zeros(Len(header))

Spec == Init /\ [][Next]_vars


(***************************************************************************)
(* The relaxed grammar of the specification, read off a header without the *)
(* parser: split the bytes after the prefix into tokens (a maximal run of  *)
(* digits, or one other byte; spaces and tabs separate tokens and are      *)
(* dropped) and compare the numbers as decimal strings.                    *)
(***************************************************************************)
GrammarWs == {9, 32}

GrammarDigit == 48..57

\* where the tokens of h start: a byte after the prefix that is not
\* whitespace and does not continue a run of digits
Starts(h) ==
    {i \in 7..Len(h) :
        h[i] \notin GrammarWs /\ (h[i] \notin GrammarDigit \/ h[i - 1] \notin GrammarDigit)}

\* the last digit of the run of digits that starts at i
RunEnd(h, i) ==
    CHOOSE j \in i..Len(h) :
        /\ \A k \in i..j : h[k] \in GrammarDigit
        /\ j = Len(h) \/ h[j + 1] \notin GrammarDigit

TokenAt(h, i) ==
    IF h[i] \in GrammarDigit
    THEN [kind |-> "num", byte |-> 0,
          digs |-> [k \in 1..(RunEnd(h, i) - i + 1) |-> h[i + k - 1] - 48]]
    ELSE [kind |-> "sym", byte |-> h[i], digs |-> <<>>]

\* the k-th start, counted from the left
Nth(S, k) == CHOOSE i \in S : Cardinality({j \in S : j < i}) = k - 1

\* the tokens of h, left to right
Lex(h) == [k \in 1..Cardinality(Starts(h)) |-> TokenAt(h, Nth(Starts(h), k))]

RECURSIVE Canon(_)
\* a digit string without its leading zeros (empty for zero)
Canon(d) == IF d # <<>> /\ d[1] = 0 THEN Canon(Tail(d)) ELSE d

RECURSIVE LexLess(_, _)
LexLess(x, y) ==
    IF x = <<>> THEN FALSE
    ELSE IF x[1] # y[1] THEN x[1] < y[1]
    ELSE LexLess(Tail(x), Tail(y))

\* x < y, x and y digit strings
DecLt(x, y) ==
    LET cx == Canon(x)
        cy == Canon(y)
    IN  Len(cx) < Len(cy) \/ (Len(cx) = Len(cy) /\ LexLess(cx, cy))

DecLe(x, y) == ~DecLt(y, x)

FitsU64(d) == DecLe(d, MaxDigits)

IsNum(t) == t.kind = "num" /\ FitsU64(t.digs)

IsSym(t, c) == t.kind = "sym" /\ t.byte = c

HasPrefix(h) ==
    /\ Len(h) > 5
    /\ h[1] = 98 /\ h[2] = 121 /\ h[3] = 116 /\ h[4] = 101 /\ h[5] = 115
    /\ h[6] \in GrammarWs

TokensOf(h) == Lex(h)

\* the shape the grammar gives a header: "Bytes", "UnboundBytes",
\* "Unsatisfied", or "Unknown" when the header does not match
GrammarShape(h) ==
    IF ~HasPrefix(h) THEN "Unknown"
    ELSE IF Cardinality(Starts(h)) \notin {3, 5} THEN "Unknown"
    ELSE LET t == TokensOf(h)
         IN  IF /\ Len(t) = 3
                /\ IsSym(t[1], 42) /\ IsSym(t[2], 47) /\ IsNum(t[3])
             THEN "Unsatisfied"
             ELSE IF /\ Len(t) = 5
                     /\ IsNum(t[1]) /\ IsSym(t[2], 45) /\ IsNum(t[3])
                     /\ IsSym(t[4], 47)
                     /\ DecLe(t[1].digs, t[3].digs)
             THEN IF IsSym(t[5], 42) THEN "UnboundBytes"
                  ELSE IF IsNum(t[5]) /\ DecLt(t[3].digs, t[5].digs) THEN "Bytes"
                  ELSE "Unknown"
             ELSE "Unknown"

Done == pc = "done"

\* C1: parse_bytes returns a value other than Unknown if and only if the
\* header matches the relaxed grammar (prefix `bytes`, one or more spaces or
\* tabs, then `*` `/` number or number `-` number `/` (number | `*`), with
\* spaces and tabs allowed between the tokens and at the end, numbers that
\* fit u64, first <= last, and last < complete length when it is given).
C1_AcceptsExactlyTheGrammar ==
    Done => ((out # Unknown) <=> (GrammarShape(header) # "Unknown"))

\* a short header with a tab after `bytes` was accepted
C1_Witness ==
    /\ Done /\ given.fam = "short" /\ out.tag = "Unsatisfied"
    /\ header[6] = 9 /\ GrammarShape(header) = "Unsatisfied"


(***************************************************************************)
(* Numbers of the properties: a u64 is compared through its decimal        *)
(* rendering, not through the comparisons of the parser.                   *)
(***************************************************************************)
RECURSIVE Minus48(_)
Minus48(s) == IF s = <<>> THEN <<>> ELSE <<s[1] - 48>> \o Minus48(Tail(s))

DecOf(x) == Minus48(Render(x))

ValLt(x, y) == DecLt(DecOf(x), DecOf(y))

ValLe(x, y) == DecLe(DecOf(x), DecOf(y))

\* the number a token holds is the u64 x
Holds(t, x) == t.kind = "num" /\ Canon(t.digs) = Canon(DecOf(x))

IsTemplate(shape) == given.fam = "template" /\ given.shape = shape

AllPadded == \A k \in Slots : given.pad[k] # <<>>

\* C2: a returned Bytes has first_byte <= last_byte < complete_length, a
\* returned UnboundBytes has first_byte <= last_byte, and every header
\* `bytes A-B/C` with A > B or B >= C (B = C included) parses to Unknown.
C2_OrderingInvariant ==
    Done =>
      /\ out.tag = "Bytes" =>
           /\ ValLe(out.first_byte, out.last_byte)
           /\ ValLt(out.last_byte, out.complete_length)
      /\ out.tag = "UnboundBytes" => ValLe(out.first_byte, out.last_byte)
      /\ (/\ IsTemplate("Bytes")
          /\ ValLt(given.b, given.a) \/ ValLe(given.c, given.b))
           => out = Unknown

\* `bytes MAX-MAX/MAX`-like header with B = C was parsed
C2_Witness ==
    /\ Done /\ IsTemplate("Bytes")
    /\ given.b = given.c /\ given.b = U64Max /\ ValLe(given.a, given.b)
    /\ out = Unknown

\* C3: for a <= b < c the header `bytes {a}-{b}/{c}` parses to
\* Bytes{a, b, c}, and so does the header with extra spaces and tabs after
\* `bytes`, around `-`, around `/` and after the last number.
C3_RoundTrip ==
    (/\ Done /\ IsTemplate("Bytes")
     /\ ValLe(given.a, given.b) /\ ValLt(given.b, given.c))
      => out = Bytes(given.a, given.b, given.c)

\* a header padded with tabs in every place was parsed to its Bytes value
C3_Witness ==
    /\ Done /\ IsTemplate("Bytes") /\ AllPadded
    /\ \E k \in Slots : TAB \in {given.pad[k][i] : i \in DOMAIN given.pad[k]}
    /\ out = Bytes(AsU64(0), AsU64(1), AsU64(20))

\* C4: `bytes */N` parses to Unsatisfied{N} for every N (0 included, extra
\* whitespace allowed), `bytes a-b/*` parses to UnboundBytes{a, b} for every
\* a <= b, and no header that contains `*` parses to a Bytes value.
C4_StarSelectsTheShape ==
    Done =>
      /\ IsTemplate("Unsatisfied") => out = Unsatisfied(given.c)
      /\ (IsTemplate("UnboundBytes") /\ ValLe(given.a, given.b))
           => out = UnboundBytes(given.a, given.b)
      /\ (\E i \in DOMAIN header : header[i] = 42) => out.tag # "Bytes"

\* `bytes */0` with extra whitespace was parsed to Unsatisfied{0}
C4_Witness ==
    /\ Done /\ IsTemplate("Unsatisfied") /\ AllPadded
    /\ given.c = U64Zero /\ out = Unsatisfied(U64Zero)

\* C5: a header that does not start with the bytes `bytes` followed by a
\* space or a tab parses to Unknown.
C5_PrefixStrictness == (Done /\ ~HasPrefix(header)) => out = Unknown

\* `Bytes 1-2/3` was parsed
C5_Witness ==
    /\ Done /\ out = Unknown
    /\ header = <<66, 121, 116, 101, 115, 32, 49, 45, 50, 47, 51>>

\* the header splits after k bytes into a header the grammar accepts and a
\* rest that holds a byte other than space and tab and does not merely
\* lengthen the last number
ValidThenMore(h, k) ==
    /\ GrammarShape(SubSeq(h, 1, k)) # "Unknown"
    /\ \E i \in (k + 1)..Len(h) : h[i] \notin GrammarWs
    /\ ~(h[k] \in GrammarDigit /\ h[k + 1] \in GrammarDigit)

\* C6: a valid header of any of the three shapes followed by more than
\* spaces and tabs after its last token parses to Unknown.
C6_NoTrailingData ==
    (Done /\ \E k \in 9..(Len(header) - 1) : ValidThenMore(header, k))
      => out = Unknown

\* `bytes 1-3/* 1` was parsed
C6_Witness ==
    /\ Done /\ out = Unknown
    /\ header = <<98, 121, 116, 101, 115, 32, 49, 45, 51, 47, 42, 32, 49>>

\* C7: a header with a number above u64::MAX parses to Unknown wherever the
\* number stands; a returned number is the number written in the header,
\* never a wrapped or cut one; `bytes */MAX` and `bytes 0-MAX/*` are
\* accepted with MAX = 18446744073709551615.
C7_OverflowBoundary ==
    Done =>
      LET t == TokensOf(header)
      IN  /\ (\E i \in DOMAIN t : t[i].kind = "num" /\ ~FitsU64(t[i].digs))
               => out = Unknown
          /\ out.tag = "Unsatisfied" => Holds(t[3], out.complete_length)
          /\ out.tag = "UnboundBytes" =>
               Holds(t[1], out.first_byte) /\ Holds(t[3], out.last_byte)
          /\ out.tag = "Bytes" =>
               /\ Holds(t[1], out.first_byte) /\ Holds(t[3], out.last_byte)
               /\ Holds(t[5], out.complete_length)
          /\ header = LiteralLine("Unsatisfied", 3, AsBytes(MaxDigits))
               => out = Unsatisfied(U64Max)
          /\ header = LiteralLine("UnboundBytes", 2, AsBytes(MaxDigits))
               => out = UnboundBytes(U64Zero, U64Max)

\* `bytes */18446744073709551616` was parsed
C7_Witness ==
    /\ Done /\ out = Unknown
    /\ header = LiteralLine("Unsatisfied", 3, AsBytes([MaxDigits EXCEPT ![20] = 6]))

\* C8: only space and tab are whitespace: a header with a newline, carriage
\* return, vertical tab, form feed or any other byte that is neither space,
\* tab, digit, `*`, `-` nor `/` after the prefix parses to Unknown.
C8_OnlySpaceAndTab ==
    (Done /\ \E i \in 6..Len(header) :
                header[i] \notin GrammarWs \cup GrammarDigit \cup {42, 45, 47})
      => out = Unknown

\* a header that is valid but for a line feed, carriage return, vertical tab
\* or form feed standing where whitespace may stand was parsed
C8_Witness ==
    /\ Done /\ out = Unknown /\ given.fam \in {"insert", "replace"}
    /\ \E i \in 6..Len(header) :
          /\ header[i] \in {10, 11, 12, 13}
          /\ GrammarShape([header EXCEPT ![i] = 32]) # "Unknown"

Tags == {"Bytes", "UnboundBytes", "Unsatisfied", "Unknown"}

\* C9: parse_bytes is total: it never panics, never reads past the end of
\* the header, cannot stop before it returns, and returns exactly one of
\* Bytes, UnboundBytes, Unsatisfied and Unknown; nothing is returned before
\* the end.
C9_Total ==
    /\ panic = "none"
    /\ idx <= Len(header)
    /\ (IsSome(peeked) /\ IsSome(Unwrap(peeked)))
         => (idx >= 1 /\ Unwrap(Unwrap(peeked)) = header[idx])
    /\ ~Done => (out = NotReturned /\ ENABLED Next)
    /\ Done => out.tag \in Tags

\* a header with a byte above 127 after a valid start was parsed
C9_Witness ==
    /\ Done /\ out = Unknown /\ HasPrefix(header)
    /\ \E i \in DOMAIN header : header[i] > 127

\* program order of the statements of parse_opt and of the stages of the
\* primitive a statement calls
PcOrder ==
    <<"prefix", "space", "branch", "unsat_star", "unsat_sep", "unsat_len",
      "first", "dash", "last", "order", "slash", "unbound_star", "complete",
      "bound", "tail", "done">>

StageOrder == <<"call", "head", "loop", "skip1", "consume", "skip2">>

Position(seq, x) == CHOOSE i \in DOMAIN seq : seq[i] = x

Ord == Len(StageOrder) * Position(PcOrder, pc) + Position(StageOrder, stage)

\* steps left, at most: bytes not yet consumed plus statements not yet run
Rank ==
    (Len(header) - Cursor) + (Len(StageOrder) * (Len(PcOrder) + 1) - Ord)

Forward == idx' >= idx /\ Cursor' >= Cursor

\* C10 as stated: the parse terminates, the cursor only moves forward, and
\* no byte is visited more than twice.
C10_VisitedAtMostTwice ==
    /\ [](\A i \in DOMAIN visits : visits[i] <= 2)
    /\ [][Forward /\ Rank' < Rank]_vars
    /\ [](Rank >= 0)

\* C10 amended: the parse terminates (every step lowers Rank, which starts
\* at the length of the header plus a constant and never goes below zero),
\* the cursor only moves forward, every byte is read out of the slice at
\* most once and is visited at most three times: the byte after a number is
\* looked at by parse_u64, looked at again by skip_spaces, and consumed.
C10_VisitedAtMostThrice ==
    /\ [](\A i \in DOMAIN visits : visits[i] <= 3 /\ reads[i] <= 1)
    /\ [][Forward /\ Rank' < Rank]_vars
    /\ [](Rank >= 0)

\* a header was accepted after one of its bytes was visited three times
C10_Witness ==
    /\ Done /\ out.tag = "Bytes"
    /\ \E i \in DOMAIN visits : visits[i] = 3

=============================================================================
